---- MODULE Spec2Model ----
(***************************************************************************)
(* Model of the Purple Bird mailer proxy: the Netlify function handler     *)
(* built by createMailerHandler, its multipart path                        *)
(* (handleMultipartRequest, driven by busboy's field / file / finish /     *)
(* error events and the per-file 'data' / 'end' / 'error' events) and its   *)
(* JSON path (handleJsonRequest).                                          *)
(*                                                                         *)
(* busboy (^1.6.0) and its file streams are Node.js streams.  The model    *)
(* delivers their events in every order the stream contract allows: part   *)
(* events only while the parser is parsing, 'finish' or 'error' at most    *)
(* once and never both, 'end' or 'error' at most once per file stream and  *)
(* never both, while file 'data'/'end' events race with the parser's       *)
(* 'finish'.                                                               *)
(***************************************************************************)
EXTENDS Integers, Sequences, FiniteSets, TLC

\* ---------------------------------------------------------------- bounds
MaxParts == 3
MaxFiles == 3
MaxChunks == 1
MaxCalls == 2
MaxClock == 3

\* ---------------------------------------------------------------- inputs
Bytes == {7}
FieldNames == {"email", "1", "formId", "form-name", "bot-field"}
FieldValues == {"x", "y"}
\* the field parts of the inbound bodies: the reserved names with one value
InboundFields ==
  { f \in [name : FieldNames, value : FieldValues] :
      f.name \in {"form-name", "bot-field"} => f.value = "x" }
FileFieldNames == {"doc", "formId", "bot-field"}
Filenames == {<< >>, <<" ">>, <<"a">>, <<"a", "\"", "b">>}
MimeTypes == {"text/plain"}
\* the file parts of the inbound bodies: every filename under the field doc,
\* and a file sent under the field names formId and bot-field
InboundFiles ==
  { f \in [name : FileFieldNames, filename : Filenames, mimeType : MimeTypes] :
      f.name = "doc" \/ f.filename = <<"a">> }
Methods == {"GET", "POST", "OPTIONS"}
MultipartCT == "multipart/form-data; boundary=in"
JsonCT == "application/json"
NoHeader == "undefined"
NoBody == "undefined"
ValidJson == "{\"name\":\"Ann\"}"
ReservedJson == "{\"form-name\":\"contact\",\"bot-field\":\"\",\"message\":\"hi\"}"
InvalidJson == "{oops"
Handlers == {"createMailerHandler", "standalone"}
MultipartBytes == "--in..."
BaseUrls == {"", "https://mailer/api"}
ApiKeys == {"", "key"}
FormIds == {<< >>, <<" ">>, <<"a", " ">>}
JsonCharsetCT == "application/json; charset=utf-8"
HtmlCT == "text/html"
UpstreamContentTypes == {JsonCharsetCT, HtmlCT, NoHeader}
UpstreamStatuses == {200, 201, 503}
UpstreamJson == "{\"success\":false,\"error\":\"quota\"}"
UpstreamHtmlA == "<html>502 Bad Gateway</html>"
UpstreamHtmlB == "<html>stack trace</html>"
UpstreamJsonSpaced == "{ \"success\": false,\n  \"error\": \"quota\" }"
UpstreamBodies == {UpstreamJson, UpstreamJsonSpaced, UpstreamHtmlA, UpstreamHtmlB}

\* the headers of an event: the two spellings the handler looks up,
\* content-type and Content-Type, and another spelling, CONTENT-TYPE
HeaderSets ==
  { [lower |-> NoHeader, upper |-> NoHeader, other |-> NoHeader],
    [lower |-> MultipartCT, upper |-> NoHeader, other |-> NoHeader],
    [lower |-> NoHeader, upper |-> JsonCT, other |-> NoHeader],
    [lower |-> NoHeader, upper |-> NoHeader, other |-> MultipartCT] }

VARIABLES
  config,          \* MAILER_BASE_URL, MAILER_FORM_ID, MAILER_FORM_API_KEY
  event,           \* the inbound event, NoEvent before the handler is invoked
  pc,              \* where the handler is: idle, multipart, json, returned
  parser,          \* busboy: none, parsing, finished, errored
  parserError,     \* the message of the error busboy emitted
  partsSeen,       \* number of part events busboy has emitted
  streams,         \* the file streams busboy has opened
  fields,          \* fields object, as its entries in insertion order
  fieldEvents,     \* the field events busboy has emitted: per name, how many
                   \* and the value of the last
  files,           \* files array
  fieldsProcessed,
  pendingFiles,
  completedFiles,
  promise,         \* the promise of handleMultipartRequest
  forwardCalls,    \* number of calls of forwardRequest
  forwardedBy,     \* the handler that called forwardRequest
  fetchCalls,      \* number of calls of fetch
  fetchState,      \* none, inflight, settled
  response,        \* what the handler returned to the caller
  outbound,        \* the request given to fetch
  upstream,        \* the downstream response that fetch returned
  trace,           \* the pipeline stages the request went through
  \* the browser side: one form element and the calls of submitMailerForm on it
  honeypot,        \* the value of input[name="bot-field"], or that there is none
  lastSubmission,  \* formElement.dataset.lastSubmission
  clock,           \* Date.now()
  calls,           \* the calls of submitMailerForm, each with its position
  fetchStarts      \* the times at which the calls called fetch, in order

handlerVars ==
  << config, event, pc, parser, parserError, partsSeen, streams, fields, fieldEvents, files,
     fieldsProcessed, pendingFiles, completedFiles, promise,
     forwardCalls, forwardedBy, fetchCalls, fetchState, response,
     outbound, upstream, trace >>

formVars == << honeypot, lastSubmission, clock, calls, fetchStarts >>

vars == << handlerVars, formVars >>

NoEvent ==
  [httpMethod |-> "none", headers |-> [lower |-> NoHeader, upper |-> NoHeader, other |-> NoHeader],
   body |-> NoBody]
\* the headers every response of the handler is given
JsonHeaders == [contentType |-> "application/json", allowOrigin |-> "*"]
NoResponse ==
  [headers |-> [contentType |-> "none", allowOrigin |-> "none"],
   statusCode |-> 0, body |-> [kind |-> "none"]]
Absent == "absent"
NoOutbound == [url |-> "none", contentType |-> "none", body |-> [kind |-> "none"]]
NoUpstream == [status |-> 0, contentType |-> "none", body |-> "none"]
Boundary == "----formdata-1730629000000-k3j9x2m1q"
NoFilename == << >>
NoError == "none"
NoInput == "no input"
NoSubmission == -1
NoResult == [ok |-> FALSE, body |-> "none"]
\* a call of submitMailerForm that has not been made
NoCall ==
  [at |-> "idle", now |-> 0, response |-> NoResult, outcome |-> "none", error |-> NoError,
   onSubmit |-> 0, onSuccess |-> 0, onError |-> 0, fetched |-> FALSE]
\* messages of the errors busboy emits on a malformed body
ParserErrors == {"Unexpected end of form", "Malformed part header"}

\* ------------------------------------------------------- pure functions
IsSpace(c) == c = " "

RECURSIVE TrimStart(_)
TrimStart(s) ==
  IF s = << >> THEN << >>
  ELSE IF IsSpace(Head(s)) THEN TrimStart(Tail(s)) ELSE s

RECURSIVE TrimEnd(_)
TrimEnd(s) ==
  IF s = << >> THEN << >>
  ELSE IF IsSpace(s[Len(s)]) THEN TrimEnd(SubSeq(s, 1, Len(s) - 1)) ELSE s

\* a trim that removes nothing
Trim_Nothing(s) == s

\* String.prototype.trim
Trim(s) == TrimEnd(TrimStart(s))

\* JavaScript truthiness of a string value (undefined and '' are falsy)
Truthy(s) == s # "" /\ s # NoHeader

\* JavaScript truthiness of a string kept as its characters
TruthyChars(s) == s # << >>

\* a || b on header values
OrElse(a, b) == IF Truthy(a) THEN a ELSE b

\* String.prototype.includes on the content types of the model
Includes(s, needle) ==
  CASE needle = "multipart/form-data" -> s = MultipartCT
    [] needle = "application/json" -> s \in {JsonCT, JsonCharsetCT}
    [] needle = "html" -> s = HtmlCT
    [] OTHER -> FALSE

\* JSON.parse on the texts of the model: the entries of the object, or a throw
JsonParse(text) ==
  CASE text = "{}" -> [ok |-> TRUE, value |-> << >>]
    [] text = ValidJson -> [ok |-> TRUE, value |-> << [name |-> "name", value |-> "Ann"] >>]
    [] text = ReservedJson ->
         [ok |-> TRUE, value |-> << [name |-> "form-name", value |-> "contact"],
                                    [name |-> "bot-field", value |-> ""],
                                    [name |-> "message", value |-> "hi"] >>]
    [] text \in {UpstreamJson, UpstreamJsonSpaced} ->
         [ok |-> TRUE, value |-> << [name |-> "success", value |-> "false"],
                                    [name |-> "error", value |-> "quota"] >>]
    [] OTHER -> [ok |-> FALSE, value |-> << >>]

\* JSON.stringify on the values of the model: the text without white space
JsonStringify(value) ==
  CASE value = << >> -> "{}"
    [] value = << [name |-> "name", value |-> "Ann"] >> -> ValidJson
    [] value = << [name |-> "success", value |-> "false"],
                  [name |-> "error", value |-> "quota"] >> -> UpstreamJson
    [] value = << [name |-> "form-name", value |-> "contact"],
                  [name |-> "bot-field", value |-> ""],
                  [name |-> "message", value |-> "hi"] >> -> ReservedJson
    [] OTHER -> "{\"message\":\"hi\"}"

RECURSIVE DeleteKey(_, _)
\* delete obj[key]
DeleteKey(obj, key) ==
  IF obj = << >> THEN << >>
  ELSE IF Head(obj).name = key THEN DeleteKey(Tail(obj), key)
  ELSE << Head(obj) >> \o DeleteKey(Tail(obj), key)

RECURSIVE Concat(_)
\* Buffer.concat(chunks)
Concat(chunks) ==
  IF chunks = << >> THEN << >> ELSE Head(chunks) \o Concat(Tail(chunks))

\* an assignment that keeps the value a name already has
Upsert_FirstWins(fs, name, value) ==
  IF \E i \in 1..Len(fs) : fs[i].name = name THEN fs
  ELSE Append(fs, [name |-> name, value |-> value])

\* fields[name] = value on the entries of the fields object
Upsert(fs, name, value) ==
  IF \E i \in 1..Len(fs) : fs[i].name = name
  THEN [i \in 1..Len(fs) |-> IF fs[i].name = name THEN [name |-> name, value |-> value] ELSE fs[i]]
  ELSE Append(fs, [name |-> name, value |-> value])

\* resolve / reject of an already settled promise change nothing
Settle(p, outcome) == IF p = "pending" THEN outcome ELSE p

\* the form before any call of submitMailerForm
FormIdle ==
  /\ honeypot = NoInput
  /\ lastSubmission = NoSubmission
  /\ clock = 0
  /\ calls = [c \in 1..MaxCalls |-> NoCall]
  /\ fetchStarts = << >>

Init ==
  /\ FormIdle
  /\ config \in [baseUrl : BaseUrls, formId : FormIds, apiKey : ApiKeys]
  /\ event = NoEvent
  /\ pc = "idle"
  /\ parser = "none"
  /\ parserError = NoError
  /\ partsSeen = 0
  /\ streams = << >>
  /\ fields = << >>
  /\ fieldEvents = [n \in FieldNames |-> [count |-> 0, last |-> "none"]]
  /\ files = << >>
  /\ fieldsProcessed = FALSE
  /\ pendingFiles = 0
  /\ completedFiles = 0
  /\ promise = "none"
  /\ forwardCalls = 0
  /\ forwardedBy = "none"
  /\ fetchCalls = 0
  /\ fetchState = "none"
  /\ response = NoResponse
  /\ outbound = NoOutbound
  /\ upstream = NoUpstream
  /\ trace = << "Idle" >>

\* ------------------------------------------------------------ responses
Envelope(success, error, details, data) ==
  [kind |-> "envelope", success |-> success, error |-> error, details |-> details, data |-> data]

MethodNotAllowed ==
  [headers |-> JsonHeaders, statusCode |-> 405, body |-> Envelope(Absent, "Method not allowed", Absent, Absent)]

\* the answer to a missing setting, worded by each of the two handlers
MissingConfiguration(handler) ==
  [headers |-> JsonHeaders, statusCode |-> 500,
   body |-> Envelope("false",
                     IF handler = "createMailerHandler"
                     THEN "Missing required configuration: baseUrl, formId, and apiKey must be provided"
                     ELSE "Missing required environment variables: MAILER_BASE_URL, MAILER_FORM_ID, MAILER_FORM_API_KEY",
                     Absent, Absent)]

\* a catch block answering without the CORS header
InternalError_NoCors(message) ==
  [headers |-> [contentType |-> "application/json", allowOrigin |-> "none"],
   statusCode |-> 500, body |-> Envelope("false", message, Absent, Absent)]

\* the catch block of the handler
InternalError(message) ==
  [headers |-> JsonHeaders, statusCode |-> 500, body |-> Envelope("false", message, Absent, Absent)]

\* a response that is ok whatever its status
Ok_Any(status) == TRUE

\* a response that is ok with the status 200 only
Ok_Only200(status) == status = 200

\* mailerResponse.ok
Ok(status) == status >= 200 /\ status <= 299

\* the details of an HTML answer, as worded on each path
HtmlDetails(path) ==
  IF path = "json" THEN "Received HTML instead of JSON - check mailer URL"
  ELSE "Received HTML instead of JSON"

\* a handler that hands the text of a non-JSON answer to the caller
Normalize_LeaksBody(up, htmlDetails) ==
  IF ~Includes(OrElse(up.contentType, ""), "application/json")
  THEN [headers |-> JsonHeaders, statusCode |-> IF up.status # 0 THEN up.status ELSE 500,
        body |-> Envelope("false",
                          "Mailer API returned invalid response (" \o ToString(up.status)
                            \o "). Check mailer logs.",
                          up.body, Absent)]
  ELSE IF ~JsonParse(up.body).ok
  THEN InternalError("Unexpected token < in JSON")
  ELSE IF ~Ok(up.status)
  THEN [headers |-> JsonHeaders, statusCode |-> up.status,
        body |-> [kind |-> "verbatim", json |-> JsonStringify(JsonParse(up.body).value)]]
  ELSE [headers |-> JsonHeaders, statusCode |-> 200,
        body |-> Envelope("true", Absent, Absent, JsonStringify(JsonParse(up.body).value))]

\* the response built from the downstream response, the same on both paths
\* but for the wording of the HTML details
Normalize(up, htmlDetails) ==
  IF ~Includes(OrElse(up.contentType, ""), "application/json")
  THEN [headers |-> JsonHeaders, statusCode |-> IF up.status # 0 THEN up.status ELSE 500,
        body |-> Envelope("false",
                          "Mailer API returned invalid response (" \o ToString(up.status)
                            \o "). Check mailer logs.",
                          IF Includes(OrElse(up.contentType, ""), "html") THEN htmlDetails
                          ELSE "Content-Type: " \o OrElse(up.contentType, ""),
                          Absent)]
  ELSE IF ~JsonParse(up.body).ok
  THEN \* mailerResponse.json() rejects; caught and answered by the handler
       InternalError("Unexpected token < in JSON")
  ELSE IF ~Ok(up.status)
  THEN [headers |-> JsonHeaders, statusCode |-> up.status,
        body |-> [kind |-> "verbatim", json |-> JsonStringify(JsonParse(up.body).value)]]
  ELSE [headers |-> JsonHeaders, statusCode |-> 200,
        body |-> Envelope("true", Absent, Absent, JsonStringify(JsonParse(up.body).value))]

\* the content type says JSON and mailerResponse.json() rejects
JsonThrows(up) ==
  Includes(OrElse(up.contentType, ""), "application/json") /\ ~JsonParse(up.body).ok

\* the downstream responses: a JSON content type with a body that parses or
\* does not, another content type with one of the two HTML texts
UpstreamResponses ==
  { up \in [status : UpstreamStatuses, contentType : UpstreamContentTypes,
            body : UpstreamBodies] :
      /\ up.contentType = JsonCharsetCT => up.body # UpstreamHtmlB
      /\ (up.contentType = JsonCharsetCT /\ up.body = UpstreamHtmlA) => up.status = 200
      /\ up.body = UpstreamJsonSpaced => up.contentType = JsonCharsetCT
      /\ (up.contentType = HtmlCT /\ up.body = UpstreamJson) => up.status = 200
      /\ up.contentType = NoHeader => up.body = UpstreamHtmlA }

Events ==
  { e \in [httpMethod : Methods, headers : HeaderSets,
           body : {NoBody, ValidJson, ReservedJson, InvalidJson, MultipartBytes}] :
      (e.body = MultipartBytes) <=> (MultipartCT \in {e.headers.lower, e.headers.other}) }

\* ------------------------------------------------------- the accumulator
\* the 'file' handler without the trim: only the empty filename is skipped
SkipsFile_NoTrim(filename) == ~TruthyChars(filename)

\* the filename test of the 'file' handler: no file was chosen
SkipsFile(filename) == ~TruthyChars(filename) \/ Trim(filename) = << >>

\* the 'end' handler keeping every file, the empty ones too
KeepsFile_Always(buffer) == TRUE

\* "only add files with actual content"
KeepsFile(buffer) == Len(buffer) > 0

\* checkAndForward without the test of fieldsProcessed
ReadyToForward_NoFinish(processed, pending, completed) ==
  pending = 0 \/ completed = pending

\* checkAndForward without the test of the file counters
ReadyToForward_NoFiles(processed, pending, completed) ==
  processed

\* checkAndForward forwarding only a submission without files
ReadyToForward_OnlyNoFiles(processed, pending, completed) ==
  processed /\ pending = 0

\* the condition of checkAndForward
ReadyToForward(processed, pending, completed) ==
  processed /\ (pending = 0 \/ completed = pending)

Last(s) == s[Len(s)]

\* ---------------------------------------------------------- the re-encoder
\* the value of a property name that is an array index, -1 for the others:
\* an object lists its array-index keys first, in ascending order
ArrayIndex(name) ==
  CASE name = "0" -> 0
    [] name = "1" -> 1
    [] name = "2" -> 2
    [] OTHER -> -1

RECURSIVE SortByIndex(_)
SortByIndex(es) ==
  IF es = << >> THEN << >>
  ELSE LET k == CHOOSE i \in 1..Len(es) :
                  \A j \in 1..Len(es) : ArrayIndex(es[i].name) <= ArrayIndex(es[j].name)
       IN << es[k] >> \o SortByIndex(SubSeq(es, 1, k - 1) \o SubSeq(es, k + 1, Len(es)))

IsIndexEntry(e) == ArrayIndex(e.name) >= 0
IsNamedEntry(e) == ArrayIndex(e.name) < 0

\* Object.entries(fields)
ObjectEntries(fs) ==
  SortByIndex(SelectSeq(fs, IsIndexEntry)) \o SelectSeq(fs, IsNamedEntry)

\* the encoder writing every entry of fields, an inbound formId too
ForwardsField_All(name) == TRUE

\* the names the loop over the fields writes to the body
ForwardsField(name) == name # "formId" /\ name # "form-name" /\ name # "bot-field"

ForwardedEntry(e) == ForwardsField(e.name)

\* a field part; its payload String(value) in text units
FieldPart(e) ==
  [kind |-> "field", name |-> e.name, filename |-> NoFilename, type |-> "none",
   payload |-> << e.value >>]

FilePart(f) ==
  [kind |-> "file", name |-> f.name, filename |-> f.filename, type |-> f.type,
   payload |-> f.buffer]

FormIdPart(formIdValue) ==
  [kind |-> "field", name |-> "formId", filename |-> NoFilename, type |-> "none",
   payload |-> formIdValue]

\* the parts forwardRequest writes: formId, the fields, the files
EncodeParts(formIdValue, fs, fl) ==
  << FormIdPart(formIdValue) >>
  \o [i \in 1..Len(SelectSeq(ObjectEntries(fs), ForwardedEntry)) |->
        FieldPart(SelectSeq(ObjectEntries(fs), ForwardedEntry)[i])]
  \o [i \in 1..Len(fl) |-> FilePart(fl[i])]

CRLF == "\r\n"

\* the bytes of a buffer, as text units of the body
BufferUnits(buffer) == [i \in 1..Len(buffer) |-> ToString(buffer[i])]

\* the text and the payload of a part, in units
PartName(p) == << p.name >>
PartPayload(p) ==
  IF p.kind = "file" THEN BufferUnits(p.payload) ELSE p.payload

\* what forwardRequest pushes for one part: the boundary line, the
\* Content-Disposition line with the name and the filename between quotes as
\* they are, the Content-Type line of a file, the empty line, the payload
SerializePart(b, p) ==
  << "--", b, CRLF, "Content-Disposition: form-data; name=\"" >> \o PartName(p)
  \o (IF p.kind = "file"
      THEN << "\"", "; filename=\"" >> \o p.filename
           \o << "\"", CRLF, "Content-Type: ", p.type, CRLF >>
      ELSE << "\"", CRLF >>)
  \o << CRLF >> \o PartPayload(p) \o << CRLF >>

RECURSIVE SerializeParts(_, _)
SerializeParts(b, ps) ==
  IF ps = << >> THEN << >>
  ELSE SerializePart(b, Head(ps)) \o SerializeParts(b, Tail(ps))

\* Buffer.concat of the parts and of the closing boundary
MultipartBody(b, ps) == SerializeParts(b, ps) \o << "--", b, "--", CRLF >>

\* handleJsonRequest deleting only the honeypot field
DeleteReserved_OnlyHoneypot(obj) == DeleteKey(obj, "bot-field")

\* "remove internal fields if present"
DeleteReserved(obj) == DeleteKey(DeleteKey(obj, "form-name"), "bot-field")

\* the request of handleJsonRequest's fetch
JsonRequest(cfg, obj) ==
  [url |-> cfg.baseUrl \o "/form-submissions",
   contentType |-> "application/json",
   body |-> [kind |-> "json", formId |-> cfg.formId, formData |-> DeleteReserved(obj)]]

\* the request of forwardRequest's fetch
UploadRequest(cfg, fs, fl) ==
  [url |-> cfg.baseUrl \o "/form-submissions-upload",
   contentType |-> "multipart/form-data; boundary=" \o Boundary,
   body |-> [kind |-> "multipart", boundary |-> Boundary,
             parts |-> EncodeParts(Trim(cfg.formId), fs, fl),
             bytes |-> MultipartBody(Boundary, EncodeParts(Trim(cfg.formId), fs, fl))]]

\* the first handler of the accumulator to run takes the request from
\* Parsing to Accumulating
Accumulate(stages) ==
  IF Last(stages) = "Parsing" THEN Append(stages, "Accumulating") ELSE stages

\* forwardRequest up to its await of fetch: the formId checks, the body,
\* the call of fetch; a throw is caught and rejects the promise
ForwardRequest(by, stages, fl) ==
  /\ forwardCalls' = forwardCalls + 1
  /\ forwardedBy' = by
  /\ IF ~TruthyChars(config.formId)
     THEN /\ promise' = Settle(promise, "rejected")
          /\ response' = IF promise = "pending"
                         THEN InternalError("MAILER_FORM_ID environment variable is not set")
                         ELSE response
          /\ trace' = IF promise = "pending" THEN stages \o << "Encoding", "Failed" >> ELSE stages
          /\ UNCHANGED << fetchCalls, fetchState, outbound >>
     ELSE IF ~TruthyChars(Trim(config.formId))
     THEN /\ promise' = Settle(promise, "rejected")
          /\ response' = IF promise = "pending"
                         THEN InternalError("MAILER_FORM_ID is empty or invalid")
                         ELSE response
          /\ trace' = IF promise = "pending" THEN stages \o << "Encoding", "Failed" >> ELSE stages
          /\ UNCHANGED << fetchCalls, fetchState, outbound >>
     ELSE /\ fetchCalls' = fetchCalls + 1
          /\ fetchState' = "inflight"
          /\ outbound' = UploadRequest(config, fields, fl)
          /\ trace' = IF promise = "pending" THEN stages \o << "Encoding", "Forwarding" >> ELSE stages
          /\ UNCHANGED << promise, response >>

NoForward ==
  UNCHANGED << forwardCalls, forwardedBy, fetchCalls, fetchState, promise, response, outbound >>

\* checkAndForward, called with the counters as the caller left them
CheckAndForward(by, processed, pending, completed, stages, fl) ==
  IF ReadyToForward(processed, pending, completed)
  THEN ForwardRequest(by, stages, fl)
  ELSE NoForward /\ trace' = stages

\* --------------------------------------------------------------- actions
\* a handler answering every method
MethodAllowed_Any(method) == TRUE

\* "only allow POST requests"
MethodAllowed(method) == method = "POST"

\* the configuration test without the API key
ConfigMissing_NoKey(cfg) == ~Truthy(cfg.baseUrl) \/ ~TruthyChars(cfg.formId)

\* !MAILER_BASE_URL || !MAILER_FORM_ID || !MAILER_FORM_API_KEY
ConfigMissing(cfg) ==
  ~Truthy(cfg.baseUrl) \/ ~TruthyChars(cfg.formId) \/ ~Truthy(cfg.apiKey)

\* the handler is invoked with an event
Invoke(e, handler) ==
  /\ UNCHANGED formVars
  /\ UNCHANGED parserError
  /\ UNCHANGED fieldEvents
  /\ pc = "idle"
  /\ event' = e
  /\ UNCHANGED << config, partsSeen, streams, fields, files, fieldsProcessed,
                  pendingFiles, completedFiles, forwardCalls, forwardedBy, upstream >>
  /\ IF ~MethodAllowed(e.httpMethod)
     THEN /\ response' = MethodNotAllowed
          /\ pc' = "returned"
          /\ trace' = trace \o << "Failed" >>
          /\ UNCHANGED << parser, promise, fetchCalls, fetchState, outbound >>
     ELSE IF ConfigMissing(config)
     THEN /\ response' = MissingConfiguration(handler)
          /\ pc' = "returned"
          /\ trace' = trace \o << "Failed" >>
          /\ UNCHANGED << parser, promise, fetchCalls, fetchState, outbound >>
     ELSE IF Includes(OrElse(OrElse(e.headers.lower, e.headers.upper), ""), "multipart/form-data")
     THEN \* handleMultipartRequest: busboy is created and given the body
          /\ pc' = "multipart"
          /\ parser' = "parsing"
          /\ promise' = "pending"
          /\ trace' = trace \o << "Parsing" >>
          /\ UNCHANGED << response, fetchCalls, fetchState, outbound >>
     ELSE IF ~JsonParse(OrElse(e.body, "{}")).ok
     THEN \* handleJsonRequest: JSON.parse throws, the handler catches
          /\ response' = InternalError("Unexpected token")
          /\ pc' = "returned"
          /\ trace' = trace \o << "Parsing", "Failed" >>
          /\ UNCHANGED << parser, promise, fetchCalls, fetchState, outbound >>
     ELSE \* handleJsonRequest up to its await of fetch
          /\ pc' = "json"
          /\ fetchCalls' = fetchCalls + 1
          /\ fetchState' = "inflight"
          /\ outbound' = JsonRequest(config, JsonParse(OrElse(e.body, "{}")).value)
          /\ trace' = trace \o << "Parsing", "Accumulating", "Encoding", "Forwarding" >>
          /\ UNCHANGED << parser, promise, response >>

\* busboy.on('field')
OnField(name, value) ==
  /\ UNCHANGED formVars
  /\ UNCHANGED parserError
  /\ parser = "parsing"
  /\ partsSeen < MaxParts
  /\ partsSeen' = partsSeen + 1
  /\ fields' = IF name = "form-name" \/ name = "bot-field" THEN fields
               ELSE Upsert(fields, name, value)
  /\ fieldEvents' = [fieldEvents EXCEPT ![name] = [count |-> @.count + 1, last |-> value]]
  /\ trace' = Accumulate(trace)
  /\ NoForward
  /\ UNCHANGED << config, event, upstream, pc, parser, streams, files, fieldsProcessed,
                  pendingFiles, completedFiles >>

\* busboy.on('file')
OnFile(name, filename, mimeType) ==
  /\ UNCHANGED formVars
  /\ UNCHANGED parserError
  /\ UNCHANGED fieldEvents
  /\ parser = "parsing"
  /\ partsSeen < MaxParts
  /\ Len(streams) < MaxFiles
  /\ partsSeen' = partsSeen + 1
  /\ LET skip == SkipsFile(filename) IN
     /\ streams' = Append(streams,
                     [name |-> name, filename |-> filename, mimeType |-> mimeType,
                      listening |-> ~skip, chunks |-> << >>, status |-> "open"])
     /\ pendingFiles' = IF skip THEN pendingFiles ELSE pendingFiles + 1
  /\ trace' = Accumulate(trace)
  /\ NoForward
  /\ UNCHANGED << config, event, upstream, pc, parser, fields, files, fieldsProcessed,
                  completedFiles >>

\* file.on('data')
OnFileData(i, chunk) ==
  /\ UNCHANGED formVars
  /\ UNCHANGED parserError
  /\ UNCHANGED fieldEvents
  /\ i \in 1..Len(streams)
  /\ streams[i].status = "open"
  /\ streams[i].listening
  /\ Len(streams[i].chunks) < MaxChunks
  /\ streams' = [streams EXCEPT ![i].chunks = Append(@, chunk)]
  /\ NoForward
  /\ UNCHANGED << config, event, upstream, pc, parser, partsSeen, fields, files, fieldsProcessed,
                  pendingFiles, completedFiles, trace >>

\* file.on('end'); a stream drained by file.resume() has no listener
OnFileEnd(i) ==
  /\ UNCHANGED formVars
  /\ UNCHANGED parserError
  /\ UNCHANGED fieldEvents
  /\ i \in 1..Len(streams)
  /\ streams[i].status = "open"
  /\ streams' = [streams EXCEPT ![i].status = "ended"]
  /\ UNCHANGED << config, event, upstream, pc, parser, partsSeen, fields, fieldsProcessed, pendingFiles >>
  /\ IF streams[i].listening
     THEN LET buffer == Concat(streams[i].chunks) IN
          /\ files' = IF KeepsFile(buffer)
                      THEN Append(files, [name |-> streams[i].name,
                                          filename |-> streams[i].filename,
                                          type |-> streams[i].mimeType,
                                          buffer |-> buffer, size |-> Len(buffer)])
                      ELSE files
          /\ completedFiles' = completedFiles + 1
          /\ CheckAndForward("fileEnd", fieldsProcessed, pendingFiles, completedFiles + 1, trace, files')
     ELSE /\ NoForward
          /\ UNCHANGED << files, completedFiles, trace >>

\* file.on('error'): logged; the stream emits nothing after it
OnFileError(i) ==
  /\ UNCHANGED formVars
  /\ UNCHANGED parserError
  /\ UNCHANGED fieldEvents
  /\ i \in 1..Len(streams)
  /\ streams[i].status = "open"
  /\ streams[i].listening
  /\ streams' = [streams EXCEPT ![i].status = "errored"]
  /\ NoForward
  /\ UNCHANGED << config, event, upstream, pc, parser, partsSeen, fields, files, fieldsProcessed,
                  pendingFiles, completedFiles, trace >>

\* the 'finish' handler with the else dropped: checkAndForward always runs
OnFinish_NoElse ==
  /\ UNCHANGED formVars
  /\ UNCHANGED parserError
  /\ UNCHANGED fieldEvents
  /\ parser = "parsing"
  /\ parser' = "finished"
  /\ fieldsProcessed' = TRUE
  /\ UNCHANGED << config, event, upstream, pc, partsSeen, streams, fields, files,
                  pendingFiles, completedFiles >>
  /\ IF pendingFiles = 0
     THEN /\ forwardCalls' = forwardCalls + 2
          /\ forwardedBy' = "finish"
          /\ fetchCalls' = IF TruthyChars(Trim(config.formId)) THEN fetchCalls + 2 ELSE fetchCalls
          /\ fetchState' = IF TruthyChars(Trim(config.formId)) THEN "inflight" ELSE fetchState
          /\ outbound' = IF TruthyChars(Trim(config.formId))
                         THEN UploadRequest(config, fields, files) ELSE outbound
          /\ promise' = IF TruthyChars(Trim(config.formId)) THEN promise ELSE "rejected"
          /\ response' = IF TruthyChars(Trim(config.formId)) THEN response
                         ELSE InternalError("MAILER_FORM_ID is empty or invalid")
          /\ trace' = Accumulate(trace) \o << "Encoding",
                                   IF TruthyChars(Trim(config.formId)) THEN "Forwarding" ELSE "Failed" >>
     ELSE CheckAndForward("finish", TRUE, pendingFiles, completedFiles, Accumulate(trace), files)

\* the 'finish' handler leaving every forward to the 'end' handlers
OnFinish_NoImmediate ==
  /\ UNCHANGED formVars
  /\ UNCHANGED parserError
  /\ UNCHANGED fieldEvents
  /\ parser = "parsing"
  /\ parser' = "finished"
  /\ fieldsProcessed' = TRUE
  /\ UNCHANGED << config, event, upstream, pc, partsSeen, streams, fields, files,
                  pendingFiles, completedFiles >>
  /\ IF pendingFiles = 0
     THEN NoForward /\ trace' = Accumulate(trace)
     ELSE CheckAndForward("finish", TRUE, pendingFiles, completedFiles, Accumulate(trace), files)

\* busboy.on('finish')
OnFinish ==
  /\ UNCHANGED formVars
  /\ UNCHANGED parserError
  /\ UNCHANGED fieldEvents
  /\ parser = "parsing"
  /\ parser' = "finished"
  /\ fieldsProcessed' = TRUE
  /\ UNCHANGED << config, event, upstream, pc, partsSeen, streams, fields, files,
                  pendingFiles, completedFiles >>
  /\ IF pendingFiles = 0
     THEN ForwardRequest("finish", Accumulate(trace), files)
     ELSE CheckAndForward("finish", TRUE, pendingFiles, completedFiles, Accumulate(trace), files)

\* a handler whose rejected promise is caught by nothing: no response
OnBusboyError_Unhandled(error) ==
  /\ UNCHANGED formVars
  /\ UNCHANGED fieldEvents
  /\ parser = "parsing"
  /\ parser' = "errored"
  /\ parserError' = error
  /\ promise' = Settle(promise, "rejected")
  /\ response' = response
  /\ trace' = IF promise = "pending" THEN Append(trace, "Failed") ELSE trace
  /\ UNCHANGED << config, event, pc, partsSeen, streams, fields, files, fieldsProcessed,
                  pendingFiles, completedFiles, forwardCalls, forwardedBy,
                  fetchCalls, fetchState, outbound, upstream >>

\* busboy.on('error'): the promise is rejected and the catch block of the
\* handler answers with error.message || 'Internal server error'
OnBusboyError(error) ==
  /\ UNCHANGED formVars
  /\ UNCHANGED fieldEvents
  /\ parser = "parsing"
  /\ parser' = "errored"
  /\ parserError' = error
  /\ promise' = Settle(promise, "rejected")
  /\ response' = IF promise = "pending"
                 THEN InternalError(OrElse(error, "Internal server error"))
                 ELSE response
  /\ trace' = IF promise = "pending" THEN Append(trace, "Failed") ELSE trace
  /\ UNCHANGED << config, event, pc, partsSeen, streams, fields, files, fieldsProcessed,
                  pendingFiles, completedFiles, forwardCalls, forwardedBy,
                  fetchCalls, fetchState, outbound, upstream >>

\* the downstream response arrives: the rest of forwardRequest or of
\* handleJsonRequest
OnFetchResponse(up) ==
  /\ UNCHANGED formVars
  /\ UNCHANGED parserError
  /\ UNCHANGED fieldEvents
  /\ fetchState = "inflight"
  /\ fetchState' = "settled"
  /\ upstream' = up
  /\ LET r == Normalize(up, HtmlDetails(pc))
         answers == pc = "json" \/ promise = "pending" IN
     /\ promise' = Settle(promise, IF JsonThrows(up) THEN "rejected" ELSE "resolved")
     /\ response' = IF answers THEN r ELSE response
     /\ trace' = IF answers
                 THEN Append(trace, IF r.body.kind = "envelope" /\ r.body.success = "true"
                                    THEN "Succeeded" ELSE "Failed")
                 ELSE trace
  /\ UNCHANGED << config, event, pc, parser, partsSeen, streams, fields, files,
                  fieldsProcessed, pendingFiles, completedFiles, forwardCalls,
                  forwardedBy, fetchCalls, outbound >>

\* fetch rejects (network error): caught, rejected, answered with a 500
OnFetchFailure ==
  /\ UNCHANGED formVars
  /\ UNCHANGED parserError
  /\ UNCHANGED fieldEvents
  /\ fetchState = "inflight"
  /\ fetchState' = "settled"
  /\ LET answers == pc = "json" \/ promise = "pending" IN
     /\ promise' = Settle(promise, "rejected")
     /\ response' = IF answers THEN InternalError("fetch failed") ELSE response
     /\ trace' = IF answers THEN Append(trace, "Failed") ELSE trace
  /\ UNCHANGED << config, event, pc, parser, partsSeen, streams, fields, files,
                  fieldsProcessed, pendingFiles, completedFiles, forwardCalls,
                  forwardedBy, fetchCalls, outbound, upstream >>

Next ==
  \/ \E e \in Events, h \in Handlers : Invoke(e, h)
  \/ \E f \in InboundFields : OnField(f.name, f.value)
  \/ \E f \in InboundFiles : OnFile(f.name, f.filename, f.mimeType)
  \/ \E i \in 1..MaxFiles, b \in Bytes : OnFileData(i, << b >>)
  \/ \E i \in 1..MaxFiles : OnFileEnd(i)
  \/ \E i \in 1..MaxFiles : OnFileError(i)
  \/ OnFinish
  \/ \E error \in ParserErrors : OnBusboyError(error)
  \/ \E up \in UpstreamResponses : OnFetchResponse(up)
  \/ OnFetchFailure

Spec == Init /\ [][Next]_vars

\* fair delivery of the parser's, the file streams' and the downstream's events
FairSpec == Spec /\ WF_vars(Next)

\* ============================================================ form helper
\* minSubmissionInterval, in ticks of the clock
minSubmissionInterval == 2

\* what the form's input named bot-field holds: no such input, an empty
\* value, a value
HoneypotValues == {NoInput, "", "http://spam"}

\* the answers of the endpoint: response.ok and what response.json() gives,
\* {success: true}, {success: false, error}, {error}, null, or a throw
ResultBodies == {"success", "failure", "error only", "null", "not JSON"}
Results == [ok : BOOLEAN, body : ResultBodies]

\* a honeypot that never trips
IsSpam_Never(h) == FALSE

\* honeypot && honeypot.value
IsSpam(h) == h # NoInput /\ h # ""

\* lastSubmission && now - parseInt(lastSubmission) < minSubmissionInterval
TooSoon(last, now) == last # NoSubmission /\ now - last < minSubmissionInterval

\* result?.success
ResultSuccess(body) == body = "success"

\* result?.error || 'Form submission failed'
ResultError(body) ==
  IF body = "failure" THEN "quota"
  ELSE IF body = "error only" THEN "Method not allowed"
  ELSE "Form submission failed"

\* a test that takes every answer for a success
Failed_Never(r) == FALSE

\* !response.ok || !result?.success
Failed(r) == ~r.ok \/ ~ResultSuccess(r.body)

\* the call is over: its promise is settled
Done(call, outcome, error) ==
  [call EXCEPT !.at = "done", !.outcome = outcome, !.error = error]

\* if (onError) onError(error), with the callback given
OnError(call) == [call EXCEPT !.onError = @ + 1]

\* the user or a bot changes the bot-field input
SetHoneypot(v) ==
  /\ honeypot # v
  /\ v # NoInput
  /\ honeypot' = v
  /\ UNCHANGED << lastSubmission, clock, calls, fetchStarts >>
  /\ UNCHANGED handlerVars

\* time passes
Tick ==
  /\ clock < MaxClock
  /\ clock' = clock + 1
  /\ UNCHANGED << honeypot, lastSubmission, calls, fetchStarts >>
  /\ UNCHANGED handlerVars

\* submitMailerForm up to its await of fetch: the honeypot, the rate limit,
\* onSubmit, the call of fetch
Submit(c) ==
  /\ calls[c].at = "idle"
  /\ \A b \in 1..(c - 1) : calls[b].at # "idle"
  /\ UNCHANGED << honeypot, lastSubmission, clock >>
  /\ UNCHANGED handlerVars
  /\ IF IsSpam(honeypot)
     THEN /\ calls' = [calls EXCEPT ![c] = Done(OnError(@), "rejected", "Spam detected")]
          /\ UNCHANGED fetchStarts
     ELSE IF TooSoon(lastSubmission, clock)
     THEN /\ calls' = [calls EXCEPT
                        ![c] = Done(OnError(@), "rejected", "Please wait before submitting again")]
          /\ UNCHANGED fetchStarts
     ELSE /\ calls' = [calls EXCEPT ![c] = [@ EXCEPT !.at = "fetch", !.now = clock,
                                                     !.onSubmit = @ + 1, !.fetched = TRUE]]
          /\ fetchStarts' = Append(fetchStarts, clock)

\* fetch resolves with the answer of the endpoint
FetchResolves(c, r) ==
  /\ calls[c].at = "fetch"
  /\ calls' = [calls EXCEPT ![c] = [@ EXCEPT !.at = "json", !.response = r]]
  /\ UNCHANGED << honeypot, lastSubmission, clock, fetchStarts >>
  /\ UNCHANGED handlerVars

\* fetch rejects: the catch block calls onError and throws again
FetchRejects(c) ==
  /\ calls[c].at = "fetch"
  /\ calls' = [calls EXCEPT ![c] = Done(OnError(@), "rejected", "Failed to fetch")]
  /\ UNCHANGED << honeypot, lastSubmission, clock, fetchStarts >>
  /\ UNCHANGED handlerVars

\* response.json() settles and the rest of submitMailerForm runs
JsonSettles(c) ==
  /\ calls[c].at = "json"
  /\ UNCHANGED << honeypot, clock, fetchStarts >>
  /\ UNCHANGED handlerVars
  /\ IF calls[c].response.body = "not JSON"
     THEN \* response.json() rejects: the catch block
          /\ calls' = [calls EXCEPT ![c] = Done(OnError(@), "rejected", "Unexpected token")]
          /\ UNCHANGED lastSubmission
     ELSE IF Failed(calls[c].response)
     THEN \* onError and throw inside try, then the catch block: onError again
          /\ calls' = [calls EXCEPT ![c] = Done(OnError(OnError(@)), "rejected",
                                               ResultError(calls[c].response.body))]
          /\ UNCHANGED lastSubmission
     ELSE /\ lastSubmission' = calls[c].now
          /\ calls' = [calls EXCEPT ![c] = Done([@ EXCEPT !.onSuccess = @ + 1], "resolved", NoError)]

FormNext ==
  \/ \E v \in HoneypotValues : SetHoneypot(v)
  \/ Tick
  \/ \E c \in 1..MaxCalls : Submit(c)
  \/ \E c \in 1..MaxCalls, r \in Results : FetchResolves(c, r)
  \/ \E c \in 1..MaxCalls : FetchRejects(c)
  \/ \E c \in 1..MaxCalls : JsonSettles(c)

\* the form helper alone: the handler stays idle under one configuration
FormInit ==
  /\ Init
  /\ config = [baseUrl |-> "https://mailer/api", formId |-> << "a", " " >>, apiKey |-> "key"]

FormSpec == FormInit /\ [][FormNext]_vars

\* ================================================================ claims
\* what the claims say of the submission, in the terms of the parser's events:
\* a filename with a character that is not white space
NonBlank(filename) == \E k \in 1..Len(filename) : filename[k] # " "

\* the file streams opened with a non-empty filename
Opened == { i \in 1..Len(streams) : NonBlank(streams[i].filename) }

\* those of them that have emitted 'end'
Drained == { i \in Opened : streams[i].status = "ended" }

\* the parser has emitted 'finish' and every opened file stream has ended
Complete == parser = "finished" /\ Drained = Opened

\* C1: forwardRequest is never started while the parser has not emitted
\* 'finish' (fieldsProcessed false) or while a file stream opened with a
\* non-empty filename has not emitted 'end' (completedFiles < pendingFiles).
C1_NoForwardBeforeComplete ==
  forwardCalls > 0 =>
    /\ parser = "finished"
    /\ fieldsProcessed
    /\ Drained = Opened
    /\ completedFiles = pendingFiles

C1_Witness ==
  /\ forwardCalls = 1
  /\ pendingFiles >= 2
  /\ completedFiles = pendingFiles
  /\ fields # << >>

\* C2: forwardRequest is started at exactly the step at which the later of
\* "parser finished" and "every opened file stream ended" becomes true, in
\* every interleaving of the finish and the file ends; a complete submission
\* is never left unforwarded.
C2_ForwardExactlyWhenComplete ==
  [][ /\ (forwardCalls' = forwardCalls + 1) <=> (~Complete /\ Complete')
      /\ forwardCalls' \in {forwardCalls, forwardCalls + 1}
      /\ Complete => Complete' ]_vars

\* the parser finished first and the last file end started the forward
C2_Witness ==
  /\ forwardedBy = "fileEnd"
  /\ forwardCalls = 1
  /\ Cardinality(Opened) >= 2
  /\ Complete

\* C3 as claimed: every request that was answered made exactly one fetch.
C3_Original ==
  response # NoResponse => fetchCalls = 1

\* the requests that reach the downstream call: a POST with the three
\* settings, and either a JSON body that parses or a complete multipart
\* submission with a form id that is not blank
ReachesForward ==
  /\ event.httpMethod = "POST"
  /\ config.baseUrl # "" /\ config.apiKey # "" /\ config.formId # << >>
  /\ \/ pc = "json"
     \/ pc = "multipart" /\ Complete /\ NonBlank(config.formId)

\* C3 amended: a request makes at most one fetch, and makes exactly one if
\* and only if it reaches the downstream call; requests answered 405, with a
\* configuration error or with a parse error make none.
C3_AtMostOneForward ==
  /\ fetchCalls \in {0, 1}
  /\ fetchCalls = 1 <=> ReachesForward

C3_Witness ==
  /\ pc = "multipart"
  /\ fetchCalls = 1
  /\ response # NoResponse
  /\ completedFiles >= 1

\* C4 as claimed: when a file stream has emitted 'error' and the parser has
\* finished and every other stream has ended, the submission is forwarded
\* without the failed file.
C4_FileErrorStillForwards ==
  ( /\ parser = "finished"
    /\ \E i \in 1..Len(streams) : streams[i].status = "errored"
    /\ \A i \in 1..Len(streams) : streams[i].status # "open" )
  => forwardCalls >= 1

\* C5 as claimed: under fair delivery of the events the promise of
\* handleMultipartRequest is eventually resolved or rejected.
C5_EventuallySettled ==
  (promise = "pending") ~> (promise \in {"resolved", "rejected"})

StageOrder ==
  { << "Idle", "Parsing" >>, << "Parsing", "Accumulating" >>,
    << "Accumulating", "Encoding" >>, << "Encoding", "Forwarding" >>,
    << "Forwarding", "Succeeded" >>, << "Forwarding", "Failed" >> }

\* a request fails from the stage at which the error occurs
FailsEarly ==
  { << "Idle", "Failed" >>, << "Parsing", "Failed" >>,
    << "Accumulating", "Failed" >>, << "Encoding", "Failed" >> }

Steps(t) == { << t[k], t[k + 1] >> : k \in 1..(Len(t) - 1) }

\* C7 as claimed: every request goes through the stages in order and skips
\* none.
C7_Original ==
  Steps(trace) \subseteq StageOrder

\* C7 amended: the stages are entered in the order Idle, Parsing,
\* Accumulating, Encoding, Forwarding, then Succeeded or Failed, except that
\* a request fails directly from the stage at which a method, configuration,
\* parse or form-id error occurs; Forwarding is entered only from Encoding
\* and, on the multipart path, only once the submission is complete.
C7_StagesInOrder ==
  /\ Steps(trace) \subseteq (StageOrder \cup FailsEarly)
  /\ \A k \in 1..Len(trace) :
       trace[k] = "Forwarding" =>
         /\ k > 1 /\ trace[k - 1] = "Encoding"
         /\ fetchCalls = 1
         /\ pc = "multipart" => Complete

C7_Witness ==
  /\ pc = "multipart"
  /\ trace = << "Idle", "Parsing", "Accumulating", "Encoding", "Forwarding", "Succeeded" >>
  /\ Cardinality(Opened) >= 1

\* C8: a file part whose filename is empty or only white space never
\* increments pendingFiles, never changes completedFiles and never appears
\* in the files list, wherever it comes among the other events.
C8_BlankFilenameNotCounted ==
  /\ pendingFiles = Cardinality(Opened)
  /\ completedFiles = Cardinality(Drained)
  /\ \A k \in 1..Len(files) : NonBlank(files[k].filename)
  /\ Len(files) <= Cardinality(Drained)

\* a white-space filename between two real files, all three streams ended
C8_Witness ==
  /\ Len(streams) = 3
  /\ streams[2].filename = << " " >>
  /\ \A i \in 1..3 : streams[i].status = "ended"
  /\ pendingFiles = 2
  /\ forwardCalls = 1

\* the opened streams that ended without a byte
DrainedEmpty == { i \in Drained : streams[i].chunks = << >> }

\* C9: a file stream with a non-empty filename that ends with zero bytes is
\* not in the files list, yet it counts as drained, so the submission becomes
\* ready without it.
C9_EmptyFileExcludedButCounted ==
  /\ Len(files) = Cardinality(Drained \ DrainedEmpty)
  /\ \A k \in 1..Len(files) : files[k].size > 0 /\ files[k].buffer # << >>
  /\ completedFiles = Cardinality(Drained)
  /\ (parser = "finished" /\ Drained = Opened) => forwardCalls = 1

C9_Witness ==
  /\ DrainedEmpty # {}
  /\ Drained \ DrainedEmpty # {}
  /\ Len(files) = 1
  /\ forwardCalls = 1

\* C10: with no file stream opened with a non-empty filename, forwardRequest
\* is started by the 'finish' event itself and waits for no file drain.
C10_NoFilesForwardAtFinish ==
  [][ (parser = "parsing" /\ parser' = "finished" /\ Opened = {})
        => (forwardCalls' = forwardCalls + 1 /\ forwardedBy' = "finish") ]_vars

\* forwarded at finish while a stream without filename is still undrained
C10_Witness ==
  /\ forwardedBy = "finish"
  /\ Opened = {}
  /\ \E i \in 1..Len(streams) : streams[i].status = "open"
  /\ fields # << >>
  /\ fetchCalls = 1

\* ------------------------------------------------------------ re-encoding
\* the parts of the multipart body given to fetch
Parts == outbound.body.parts

Multipart == outbound.body.kind = "multipart"

\* s is t without the white space around it
IsTrimOf(s, t) ==
  /\ s # << >> /\ s[1] # " " /\ s[Len(s)] # " "
  /\ \E i \in 1..Len(t) :
       /\ i + Len(s) - 1 <= Len(t)
       /\ s = SubSeq(t, i, i + Len(s) - 1)
       /\ \A k \in 1..Len(t) : (k < i \/ k > i + Len(s) - 1) => t[k] = " "

\* C11 as claimed: the body starts with the formId part carrying the trimmed
\* configured form id, and exactly one of its parts is named formId.
C11_Original ==
  Multipart =>
    /\ Parts[1].name = "formId"
    /\ IsTrimOf(Parts[1].payload, config.formId)
    /\ Cardinality({ i \in 1..Len(Parts) : Parts[i].name = "formId" }) = 1

\* C11 amended: the body starts with the formId part carrying the trimmed
\* configured form id, and it is the only field part named formId, also when
\* the inbound fields contain a field named formId; a file uploaded under the
\* field name formId is forwarded as a file part of that name.
C11_FormIdFirstAndOnlyField ==
  Multipart =>
    /\ Parts[1].name = "formId"
    /\ Parts[1].kind = "field"
    /\ IsTrimOf(Parts[1].payload, config.formId)
    /\ { i \in 1..Len(Parts) : Parts[i].name = "formId" /\ Parts[i].kind = "field" } = {1}

\* an inbound field formId and another field were seen, and the body was sent
C11_Witness ==
  /\ Multipart
  /\ \E i \in 1..Len(fields) : fields[i].name = "formId"
  /\ Len(fields) >= 2
  /\ Len(Parts) >= 2
  /\ config.formId # Parts[1].payload

\* the names of the entries of fields that are forwarded, as first seen
RECURSIVE FirstSeenNames(_)
FirstSeenNames(fs) ==
  IF fs = << >> THEN << >>
  ELSE (IF Head(fs).name = "formId" THEN << >> ELSE << Head(fs).name >>)
       \o FirstSeenNames(Tail(fs))

\* C12 as claimed: after the formId part the field parts come in the order
\* in which their names were first seen, names that look like integers
\* included, and every file part comes after every field part.
C12_FieldsInFirstSeenOrder ==
  Multipart =>
    LET names == FirstSeenNames(fields) IN
    /\ \A i \in 1..Len(names) :
         /\ i + 1 <= Len(Parts)
         /\ Parts[i + 1].kind = "field"
         /\ Parts[i + 1].name = names[i]
    /\ \A i \in 1..Len(Parts) : i > Len(names) + 1 => Parts[i].kind = "file"

\* a multipart parser reading the body back: the index of the first unit
\* equal to u at or after from, 0 when there is none
RECURSIVE IndexOf(_, _, _)
IndexOf(t, from, u) ==
  IF from > Len(t) THEN 0
  ELSE IF t[from] = u THEN from
  ELSE IndexOf(t, from + 1, u)

\* the index of the CRLF that ends the payload starting at from: the first
\* CRLF followed by the delimiter
RECURSIVE PayloadEnd(_, _, _)
PayloadEnd(t, from, b) ==
  IF from + 2 > Len(t) THEN 0
  ELSE IF t[from] = CRLF /\ t[from + 1] = "--" /\ t[from + 2] = b THEN from
  ELSE PayloadEnd(t, from + 1, b)

\* the part whose boundary line ends at unit 3 of t, and the index at which
\* the next boundary line starts; a quoted parameter ends at the first quote
\* and the rest of a header line is ignored
ReadPart(t, b) ==
  LET nameEnd == IndexOf(t, 5, "\"")
      isFile == nameEnd + 1 <= Len(t) /\ t[nameEnd + 1] = "; filename=\""
      fileEnd == IF isFile THEN IndexOf(t, nameEnd + 2, "\"") ELSE nameEnd
      lineEnd == IndexOf(t, fileEnd + 1, CRLF)
      hasType == lineEnd + 1 <= Len(t) /\ t[lineEnd + 1] = "Content-Type: "
      blank == IF hasType THEN lineEnd + 4 ELSE lineEnd + 1
      stop == PayloadEnd(t, blank + 1, b)
  IN [part |-> [kind |-> IF isFile THEN "file" ELSE "field",
                name |-> SubSeq(t, 5, nameEnd - 1),
                filename |-> IF isFile THEN SubSeq(t, nameEnd + 2, fileEnd - 1) ELSE NoFilename,
                type |-> IF hasType THEN t[lineEnd + 2] ELSE "none",
                payload |-> SubSeq(t, blank + 1, stop - 1)],
      next |-> stop + 1]

RECURSIVE Reparse(_, _)
Reparse(t, b) ==
  IF Len(t) < 4 \/ t[1] # "--" \/ t[2] # b \/ t[3] # CRLF THEN << >>
  ELSE LET r == ReadPart(t, b) IN
       << r.part >> \o Reparse(SubSeq(t, r.next, Len(t)), b)

Range(f) == { f[i] : i \in DOMAIN f }

\* the fields and file parts of the submission as a parser should return
\* them: the formId part, the fields but the reserved ones and the inbound
\* formId that the formId part replaces, the files
SubmissionParts ==
  { [kind |-> "field", name |-> << "formId" >>, filename |-> NoFilename, type |-> "none",
     payload |-> Parts[1].payload] }
  \cup { [kind |-> "field", name |-> << fields[i].name >>, filename |-> NoFilename,
          type |-> "none", payload |-> << fields[i].value >>] :
         i \in { k \in 1..Len(fields) :
                   fields[k].name \notin {"formId", "form-name", "bot-field"} } }
  \cup { [kind |-> "file", name |-> << files[i].name >>, filename |-> files[i].filename,
          type |-> files[i].type,
          payload |-> [k \in 1..Len(files[i].buffer) |-> ToString(files[i].buffer[k])]] :
         i \in 1..Len(files) }

\* C13 as claimed: parsing the re-encoded body yields exactly the fields and
\* the file parts (name, filename, mimeType, payload) of the submission, minus
\* the reserved fields, plus the leading formId part.
C13_RoundTrip ==
  Multipart => Range(Reparse(outbound.body.bytes, outbound.body.boundary)) = SubmissionParts

\* the round trip of the submissions whose filenames have no quote
C13_RoundTripWithoutQuotes ==
  (Multipart /\ \A i \in 1..Len(files) : \A k \in 1..Len(files[i].filename) :
                   files[i].filename[k] # "\"")
    => Range(Reparse(outbound.body.bytes, outbound.body.boundary)) = SubmissionParts

\* ------------------------------------------------------- reserved names
ReservedNames == {"form-name", "bot-field"}

\* C14 as claimed: neither form-name nor bot-field is forwarded on either
\* path: no part of the re-encoded multipart body has one of these names and
\* no key of formData in the JSON body is one of them, whatever the inbound
\* submission contains.
C14_ReservedNeverForwarded ==
  /\ Multipart => \A i \in 1..Len(Parts) : Parts[i].name \notin ReservedNames
  /\ outbound.body.kind = "json" =>
       \A i \in 1..Len(outbound.body.formData) :
         outbound.body.formData[i].name \notin ReservedNames

\* what does hold: no field part and no key of formData has a reserved name
C14_ReservedFieldsNeverForwarded ==
  /\ Multipart => \A i \in 1..Len(Parts) :
                    Parts[i].kind = "field" => Parts[i].name \notin ReservedNames
  /\ outbound.body.kind = "json" =>
       \A i \in 1..Len(outbound.body.formData) :
         outbound.body.formData[i].name \notin ReservedNames

\* ---------------------------------------------------------- normalizing
\* the downstream answered and the handler built its response from the answer
Answered == fetchState = "settled" /\ upstream # NoUpstream

\* the content type of the downstream response says JSON
UpstreamIsJson == Includes(OrElse(upstream.contentType, ""), "application/json")

\* C15 as claimed: when the downstream response's Content-Type is not JSON the
\* caller receives a 5xx gateway status, whatever the upstream status (a 2xx
\* included), with success false, and fetch was called once.
C15_NonJsonIsGatewayError ==
  (Answered /\ ~UpstreamIsJson) =>
    /\ response.statusCode \in 500..599
    /\ response.body.kind = "envelope"
    /\ response.body.success = "false"
    /\ fetchCalls = 1

\* what does hold: the caller receives the upstream status with success
\* false, and fetch was called once
C15_NonJsonKeepsUpstreamStatus ==
  (Answered /\ ~UpstreamIsJson) =>
    /\ response.statusCode = upstream.status
    /\ response.body.kind = "envelope"
    /\ response.body.success = "false"
    /\ fetchCalls = 1

\* C16: when the downstream response is not JSON, the response to the caller
\* does not depend on the text of the upstream body: with any other body text
\* under the same status and content type the caller gets the same response;
\* it says success false, carries no data, and for an HTML content type its
\* details say that HTML was received instead of JSON.
C16_NonJsonBodyNotLeaked ==
  (Answered /\ ~UpstreamIsJson) =>
    /\ \A b \in UpstreamBodies :
         Normalize([upstream EXCEPT !.body = b], HtmlDetails(pc)) = response
    /\ response.body.kind = "envelope"
    /\ response.body.success = "false"
    /\ response.body.data = Absent
    /\ response.body.details \notin UpstreamBodies
    /\ response.body.error \notin UpstreamBodies
    /\ upstream.contentType = HtmlCT =>
         response.body.details \in { "Received HTML instead of JSON",
                                     "Received HTML instead of JSON - check mailer URL" }

\* an HTML answer with status 503 came back on the multipart path
C16_Witness ==
  /\ Answered
  /\ pc = "multipart"
  /\ upstream.contentType = HtmlCT
  /\ upstream.status = 503
  /\ upstream.body = UpstreamHtmlB
  /\ response.statusCode = 503
  /\ response.body.details = "Received HTML instead of JSON"

\* the downstream answered with a JSON content type and a body that parses
UpstreamJsonParsed == Answered /\ UpstreamIsJson /\ JsonParse(upstream.body).ok

\* C17: when the downstream response is JSON and its status is not a 2xx, the
\* caller receives the upstream status code and the upstream JSON itself as
\* the body, not wrapped, its success field as upstream reported it, on the
\* JSON path and on the multipart path.
C17_FailurePassedThrough ==
  (UpstreamJsonParsed /\ upstream.status \notin 200..299) =>
    /\ pc \in {"json", "multipart"}
    /\ response.statusCode = upstream.status
    /\ response.body.kind = "verbatim"
    /\ JsonParse(response.body.json) = JsonParse(upstream.body)

\* a JSON answer with status 503, written with white space, came back on the
\* multipart path
C17_Witness ==
  /\ UpstreamJsonParsed
  /\ pc = "multipart"
  /\ upstream.status = 503
  /\ upstream.body = UpstreamJsonSpaced
  /\ response.statusCode = 503
  /\ response.body.kind = "verbatim"

\* C18: when the downstream response is JSON and its status is a 2xx, the
\* caller receives status 200 and the body {success: true, data: <upstream
\* JSON>}, on the JSON path and on the multipart path.
C18_SuccessWrapped ==
  (UpstreamJsonParsed /\ upstream.status \in 200..299) =>
    /\ pc \in {"json", "multipart"}
    /\ response.statusCode = 200
    /\ response.body.kind = "envelope"
    /\ response.body.success = "true"
    /\ JsonParse(response.body.data) = JsonParse(upstream.body)
    /\ response.body.error = Absent
    /\ response.body.details = Absent

\* a JSON answer with status 201 came back on the JSON path
C18_Witness ==
  /\ UpstreamJsonParsed
  /\ pc = "json"
  /\ upstream.status = 201
  /\ response.statusCode = 200
  /\ response.body.kind = "envelope"
  /\ response.body.success = "true"

\* --------------------------------------------------------- early answers
\* one of the three settings is missing or empty
SettingMissing == config.baseUrl = "" \/ config.formId = << >> \/ config.apiKey = ""

\* C19 as claimed: if one of the three settings is missing or empty, a POST
\* request receives status 500 with success false and an error beginning
\* 'Missing required configuration', and fetch is not called.
C19_Original ==
  (event.httpMethod = "POST" /\ SettingMissing) =>
    /\ pc = "returned"
    /\ response.statusCode = 500
    /\ response.body.kind = "envelope"
    /\ response.body.success = "false"
    /\ response.body.error =
         "Missing required configuration: baseUrl, formId, and apiKey must be provided"
    /\ fetchCalls = 0

\* C19 amended: if one of the three settings is missing or empty, a POST
\* request receives status 500 with success false and an error that begins
\* 'Missing required configuration' from createMailerHandler and 'Missing
\* required environment variables' from the standalone handler; the request
\* is not parsed and fetch is not called.
C19_MissingSettingIs500 ==
  (event.httpMethod = "POST" /\ SettingMissing) =>
    /\ pc = "returned"
    /\ response.statusCode = 500
    /\ response.body.kind = "envelope"
    /\ response.body.success = "false"
    /\ response.body.error \in
         { "Missing required configuration: baseUrl, formId, and apiKey must be provided",
           "Missing required environment variables: MAILER_BASE_URL, MAILER_FORM_ID, MAILER_FORM_API_KEY" }
    /\ parser = "none"
    /\ fetchCalls = 0
    /\ outbound = NoOutbound

\* a multipart POST reached the standalone handler configured without its
\* API key only
C19_Witness ==
  /\ event.httpMethod = "POST"
  /\ event.headers.lower = MultipartCT
  /\ config.apiKey = "" /\ config.baseUrl # "" /\ config.formId # << >>
  /\ pc = "returned"
  /\ response.statusCode = 500
  /\ response.body.error =
       "Missing required environment variables: MAILER_BASE_URL, MAILER_FORM_ID, MAILER_FORM_API_KEY"

\* C20: a request whose method is not POST receives status 405 with the body
\* {"error":"Method not allowed"}; nothing is parsed and fetch is not called,
\* whatever the headers, the body and the configuration.
C20_NonPostIs405 ==
  (event # NoEvent /\ event.httpMethod # "POST") =>
    /\ pc = "returned"
    /\ response.statusCode = 405
    /\ response.body.kind = "envelope"
    /\ response.body.error = "Method not allowed"
    /\ response.body.success = Absent
    /\ response.body.details = Absent
    /\ response.body.data = Absent
    /\ parser = "none" /\ partsSeen = 0 /\ fields = << >> /\ files = << >>
    /\ forwardCalls = 0
    /\ fetchCalls = 0
    /\ outbound = NoOutbound

\* a GET with a multipart content type and a body reached a handler that has
\* no base URL
C20_Witness ==
  /\ event.httpMethod = "GET"
  /\ event.headers.lower = MultipartCT
  /\ event.body = MultipartBytes
  /\ config.baseUrl = ""
  /\ pc = "returned"
  /\ response.statusCode = 405

\* ------------------------------------------------------- response shape
\* the handler has returned a response to the caller
Responded == response # NoResponse

\* C21 as claimed: every response the handler returns is JSON with
\* Content-Type application/json, carries Access-Control-Allow-Origin: *, and
\* its body has the shape {success: boolean, data?, error?, details?}.
C21_Original ==
  Responded =>
    /\ response.headers.contentType = "application/json"
    /\ response.headers.allowOrigin = "*"
    /\ response.body.kind = "envelope"
    /\ response.body.success \in {"true", "false"}

\* C21 amended: every response the handler returns is JSON with Content-Type
\* application/json and carries Access-Control-Allow-Origin: *; its body has
\* the shape {success: boolean, data?, error?, details?} except in two cases:
\* the 405 response, whose body is {error} without a success field, and the
\* response to a failing JSON answer of the downstream, whose body is the
\* downstream's JSON as it is.
C21_JsonWithCorsAndShape ==
  Responded =>
    /\ response.headers.contentType = "application/json"
    /\ response.headers.allowOrigin = "*"
    /\ \/ /\ response.body.kind = "envelope"
          /\ response.body.success \in {"true", "false"}
          /\ response.body.success = "true" <=> response.body.data # Absent
          /\ response.body.success = "true" => response.body.error = Absent
       \/ /\ response.body.kind = "envelope"
          /\ response.statusCode = 405
          /\ response.body.success = Absent
          /\ response.body.error = "Method not allowed"
       \/ /\ response.body.kind = "verbatim"
          /\ UpstreamJsonParsed
          /\ upstream.status \notin 200..299
          /\ response.statusCode = upstream.status

\* the downstream's failing JSON was handed to the caller under the headers
\* of the handler
C21_Witness ==
  /\ Responded
  /\ response.body.kind = "verbatim"
  /\ response.headers = JsonHeaders
  /\ upstream.status = 503

\* ---------------------------------------------------- field accumulation
\* the number of field events named n
EventsNamed(n) == fieldEvents[n].count

\* the value of the last field event named n
LastValue(n) == fieldEvents[n].last

\* C24 as claimed: for every field name but form-name and bot-field, the
\* value forwarded is the value of the last field event with that name, and
\* the name appears at most once in the re-encoded body.
C24_Original ==
  Multipart =>
    \A n \in FieldNames \ ReservedNames :
      EventsNamed(n) > 0 =>
        /\ Cardinality({ i \in 1..Len(Parts) : Parts[i].name = n }) = 1
        /\ \A i \in 1..Len(Parts) : Parts[i].name = n => Parts[i].payload = << LastValue(n) >>

\* C24 amended: for every field name but form-name, bot-field and formId, the
\* re-encoded body has exactly one field part of that name when a field event
\* had it, carrying the value of the last such event, and no field part of
\* that name otherwise; the part named formId carries the configured form id
\* whatever the field events named formId carried.
C24_LastWriteWins ==
  Multipart =>
    \A n \in FieldNames \ (ReservedNames \cup {"formId"}) :
      LET at == { i \in 1..Len(Parts) : Parts[i].name = n /\ Parts[i].kind = "field" } IN
      IF EventsNamed(n) = 0 THEN at = {}
      ELSE /\ Cardinality(at) = 1
           /\ \A i \in at : Parts[i].payload = << LastValue(n) >>

\* the field email came twice, after another field, and the body was sent
\* with the value of the last
C24_Witness ==
  /\ Multipart
  /\ EventsNamed("email") = 2
  /\ EventsNamed("1") = 1
  /\ \E i \in 1..Len(Parts) : Parts[i].name = "email" /\ Parts[i].payload = << LastValue("email") >>

\* ---------------------------------------------------------------- routing
\* the request has a content-type header, under some spelling of its name,
\* that contains multipart/form-data
SaysMultipart ==
  \E h \in {event.headers.lower, event.headers.upper, event.headers.other} :
    Includes(h, "multipart/form-data")

\* a POST that passed the configuration test
Routed == event.httpMethod = "POST" /\ pc # "idle" /\ ~SettingMissing

\* C25 as claimed: a POST whose content-type header, under any spelling of
\* the header name, contains multipart/form-data is handled on the multipart
\* path and what it forwards goes to <baseUrl>/form-submissions-upload; every
\* other POST is handled on the JSON path, an absent body parsed as {}, and
\* what it forwards goes to <baseUrl>/form-submissions.
C25_Routing ==
  Routed =>
    IF SaysMultipart
    THEN /\ pc = "multipart"
         /\ outbound # NoOutbound =>
              /\ outbound.url = config.baseUrl \o "/form-submissions-upload"
              /\ outbound.body.kind = "multipart"
    ELSE /\ parser = "none"
         /\ pc = "json" \/ (pc = "returned" /\ event.body = InvalidJson)
         /\ pc = "json" =>
              /\ outbound.url = config.baseUrl \o "/form-submissions"
              /\ outbound.body.kind = "json"
              /\ event.body = NoBody => outbound.body.formData = << >>

\* what does hold: the same for the two spellings content-type and
\* Content-Type; under another spelling the header is not seen and the
\* request is handled on the JSON path
C25_RoutingOfTwoSpellings ==
  Routed =>
    IF Includes(OrElse(OrElse(event.headers.lower, event.headers.upper), ""),
                "multipart/form-data")
    THEN /\ pc = "multipart"
         /\ outbound # NoOutbound =>
              /\ outbound.url = config.baseUrl \o "/form-submissions-upload"
              /\ outbound.body.kind = "multipart"
    ELSE /\ parser = "none"
         /\ pc = "json" \/ (pc = "returned" /\ event.body \in {InvalidJson, MultipartBytes})
         /\ pc = "json" =>
              /\ outbound.url = config.baseUrl \o "/form-submissions"
              /\ outbound.body.kind = "json"
              /\ event.body = NoBody => outbound.body.formData = << >>

\* ------------------------------------------------------------ parse error
\* C26: an error of the parser on a multipart body reaches the caller as
\* status 500 with success false and the parser's error message as the error
\* field; the handler returns this response, it does not throw or reject, and
\* nothing is forwarded.
C26_ParserErrorIs500 ==
  parser = "errored" =>
    /\ promise = "rejected"
    /\ Responded
    /\ response.headers = JsonHeaders
    /\ response.statusCode = 500
    /\ response.body.kind = "envelope"
    /\ response.body.success = "false"
    /\ response.body.error = parserError
    /\ fetchCalls = 0

\* the parser gave up on a part header after two parts
C26_Witness ==
  /\ parser = "errored"
  /\ parserError = "Malformed part header"
  /\ partsSeen = 2
  /\ response.statusCode = 500
  /\ response.body.error = "Malformed part header"

\* ---------------------------------------------------- form id on multipart
\* the configured form id is missing or has nothing but white space
BlankFormId == \A k \in 1..Len(config.formId) : config.formId[k] = " "

\* C27: on the multipart path, if the configured form id is missing or empty
\* after trimming, the request fails with status 500 and success false; no
\* multipart body is built and fetch is not called. A missing form id fails
\* before parsing, a form id of white space when forwardRequest starts.
C27_BlankFormIdFailsBeforeBody ==
  (event.httpMethod = "POST" /\ event.headers.lower = MultipartCT /\ BlankFormId) =>
    /\ fetchCalls = 0
    /\ outbound = NoOutbound
    /\ config.formId = << >> =>
         /\ pc = "returned" /\ parser = "none"
         /\ response.statusCode = 500
         /\ response.body.success = "false"
    /\ forwardCalls > 0 =>
         /\ promise = "rejected"
         /\ response.statusCode = 500
         /\ response.body.kind = "envelope"
         /\ response.body.success = "false"
         /\ response.body.error = "MAILER_FORM_ID is empty or invalid"

\* a form id of one space: a file was accumulated, forwardRequest started and
\* failed
C27_Witness ==
  /\ event.headers.lower = MultipartCT
  /\ config.formId = << " " >>
  /\ files # << >>
  /\ forwardCalls = 1
  /\ fetchCalls = 0
  /\ response.statusCode = 500
  /\ response.body.error = "MAILER_FORM_ID is empty or invalid"

\* ------------------------------------------------------------ one forward
\* C28: within one multipart request forwardRequest is started at most once,
\* whatever the order of the file 'end' events and of 'finish': the step
\* that starts it is the first to do so, it finds the parser finished and
\* every counted file completed, and fetch is called at most once.
C28_ForwardStartedOnce ==
  [][/\ forwardCalls' <= 1
     /\ fetchCalls' <= 1
     /\ forwardCalls' # forwardCalls =>
          /\ forwardCalls = 0
          /\ fieldsProcessed'
          /\ completedFiles' = pendingFiles'
          /\ forwardedBy' \in {"finish", "fileEnd"}]_vars

\* two files were counted, 'finish' came before the last 'end', and that
\* 'end' started the one forward
C28_Witness ==
  /\ pendingFiles = 2
  /\ completedFiles = 2
  /\ parser = "finished"
  /\ forwardedBy = "fileEnd"
  /\ forwardCalls = 1
  /\ fetchCalls = 1

\* ============================================================ form helper
\* C22 as claimed: two submissions of one form that both reach the network
\* are never started less than minSubmissionInterval apart, also when
\* submitMailerForm is called again while an earlier call on the same form
\* is still awaiting its response.
C22_FetchesSpacedByInterval ==
  \A i, j \in 1..Len(fetchStarts) :
    i < j => fetchStarts[j] - fetchStarts[i] >= minSubmissionInterval

\* what does hold: a call that starts less than minSubmissionInterval after
\* the start of a call that has succeeded by then does not reach the network
C22_ThrottledAfterSuccess ==
  [][\A c \in 1..MaxCalls :
       (calls[c].at = "idle" /\ calls'[c].at # "idle"
        /\ lastSubmission # NoSubmission /\ clock - lastSubmission < minSubmissionInterval) =>
         /\ ~calls'[c].fetched
         /\ calls'[c].outcome = "rejected"
         /\ fetchStarts' = fetchStarts]_vars

\* C23: when the form's input named bot-field has a non-empty value, the call
\* throws 'Spam detected' and onError is invoked; onSubmit and fetch are not
\* called and dataset.lastSubmission is left as it was.
C23_HoneypotStopsCall ==
  [][\A c \in 1..MaxCalls :
       (calls[c].at = "idle" /\ calls'[c].at # "idle"
        /\ honeypot # NoInput /\ honeypot # "") =>
         /\ calls'[c].at = "done"
         /\ calls'[c].outcome = "rejected"
         /\ calls'[c].error = "Spam detected"
         /\ calls'[c].onError = 1
         /\ calls'[c].onSubmit = 0
         /\ calls'[c].onSuccess = 0
         /\ ~calls'[c].fetched
         /\ fetchStarts' = fetchStarts
         /\ lastSubmission' = lastSubmission]_vars

\* a call was stopped by the honeypot after an earlier call had succeeded
C23_Witness ==
  /\ honeypot = "http://spam"
  /\ calls[1].outcome = "resolved"
  /\ lastSubmission # NoSubmission
  /\ calls[2].at = "done"
  /\ calls[2].error = "Spam detected"
  /\ calls[2].onError = 1
  /\ Len(fetchStarts) = 1

\* C29 as claimed: a call of submitMailerForm that is over has invoked one
\* terminal callback once: onSuccess once and onError never when it
\* succeeded, onError once and onSuccess never when it failed, whatever the
\* reason.
C29_OneTerminalCallback ==
  \A c \in 1..MaxCalls :
    calls[c].at = "done" =>
      /\ calls[c].outcome = "resolved" => calls[c].onSuccess = 1 /\ calls[c].onError = 0
      /\ calls[c].outcome = "rejected" => calls[c].onError = 1 /\ calls[c].onSuccess = 0

\* what does hold: onSuccess once and onError never on success; onSuccess
\* never on failure, and onError once but for an answer that parses and is
\* not a success, for which it is invoked twice
C29_CallbacksAsCoded ==
  \A c \in 1..MaxCalls :
    calls[c].at = "done" =>
      /\ calls[c].outcome = "resolved" => calls[c].onSuccess = 1 /\ calls[c].onError = 0
      /\ calls[c].outcome = "rejected" =>
           /\ calls[c].onSuccess = 0
           /\ calls[c].onError =
                IF calls[c].response # NoResult /\ calls[c].response.body # "not JSON"
                THEN 2 ELSE 1

\* C30: dataset.lastSubmission changes only in the step that completes a
\* successful submission (response ok and result.success true), which sets
\* it to the time that call started; every step that ends a call in failure
\* leaves it as it was.
C30_LastSubmissionOnlyOnSuccess ==
  [][/\ lastSubmission' # lastSubmission =>
          \E c \in 1..MaxCalls :
            /\ calls[c].at = "json"
            /\ calls[c].response.ok
            /\ calls[c].response.body = "success"
            /\ calls'[c].outcome = "resolved"
            /\ lastSubmission' = calls[c].now
     /\ \A c \in 1..MaxCalls :
          (calls[c].outcome = "none" /\ calls'[c].outcome = "rejected") =>
            lastSubmission' = lastSubmission]_vars

\* a call failed on the endpoint's answer and the next call, made at once,
\* reached the network
C30_Witness ==
  /\ calls[1].outcome = "rejected"
  /\ calls[1].fetched
  /\ calls[1].response.body = "failure"
  /\ lastSubmission = NoSubmission
  /\ calls[2].fetched
  /\ calls[2].now = calls[1].now

\* ------------------------------------------------------ status and success
\* the body of the response says success: true
SaysSuccess == response.body.kind = "envelope" /\ response.body.success = "true"

\* C31 as claimed: for every response the handler returns, the status code is
\* a 2xx if and only if the body has success: true, for every upstream status
\* and content type, on both paths.
C31_SuccessIffStatus2xx ==
  Responded => (response.statusCode \in 200..299 <=> SaysSuccess)

\* what does hold: success: true comes with status 200 only, and a 2xx
\* without success: true is the answer to a downstream response that is not
\* JSON and has that 2xx status
C31_SuccessIffStatus2xxButNonJson ==
  Responded =>
    /\ SaysSuccess => response.statusCode = 200
    /\ (response.statusCode \in 200..299 /\ ~SaysSuccess) =>
         /\ Answered /\ ~UpstreamIsJson
         /\ response.statusCode = upstream.status

====
